---- MODULE Spec2Model ----
(***************************************************************************)
(* Model of gpio-buzzer.c: a GPIO buzzer exposed through a misc character  *)
(* device (open / write / release) and a sysfs attribute (show / store),   *)
(* together with the platform driver's probe and remove.                   *)
(*                                                                         *)
(* Every handler is split at its accesses to shared memory, so that the    *)
(* interleavings the kernel allows between callers are the interleavings   *)
(* of the model.  spin_lock_irqsave is modelled as a lock with an owner;   *)
(* taking it and the first statements it protects are one step.  write()   *)
(* is called with cnt = 1, the size of databuf.                            *)
(*                                                                         *)
(* Spec is the whole life of the module: probe, the handlers, remove.      *)
(* SpecAttached is one attachment: the handlers alone, from the state a    *)
(* successful probe leaves, with the driver staying bound.                 *)
(***************************************************************************)
EXTENDS Integers, Sequences, FiniteSets, TLC

(* ---- bounds ----------------------------------------------------------- *)
\* number of concurrent callers (threads entering the driver)
NumCallers == 2

(* ---- program constants ------------------------------------------------ *)
BUZZEROFF == 0
BUZZERON == 1
GPIO_OUTPUT == 1
GPIO_HIGH == 1
GPIO_LOW == 0
DEV_BUSY == 1
DEV_FREE == 0
EBUSY == 16
EFAULT == 14
EINVAL == 22
\* the gpio number of_get_named_gpio resolves "gpios" to
GpioNum == 5
\* miscbuzzer_write copies into unsigned char databuf[1]
WriteCnt == 1

Callers == 1..NumCallers

\* bytes a caller may hand to write(): the two state codes and others
Bytes == {0, 1, 2}
\* values an unsigned long that was never assigned may hold
Garbage == {0, 1, 2}
\* texts a caller may write to the attribute, as sequences of characters
Texts == { <<"0">>, <<"1", "\n">>, <<"2">>, <<"x">> }
NoText == << >>
\* what the device tree may say: is "gpios" resolvable, and "default-state"
DefaultStates == {"none", "on", "off"}
OfNodes == [gpios : BOOLEAN, default_state : DefaultStates]

VARIABLES
    buzzer_gpio,      \* miscbuzzer.buzzer_gpio
    buzzer_stats,     \* miscbuzzer.buzzer_stats
    dev_stats,        \* miscbuzzer.dev_stats
    lock,             \* miscbuzzer.lock: {} when free, {p} when p holds it
    line,             \* level of the GPIO line
    misc_registered,  \* buzzer_miscdev is registered: open() reaches the driver
    attr_file,        \* the sysfs file "buzz" exists: show/store reach the driver
    of_node,          \* pdev->dev.of_node
    plat_pc,          \* position of the platform core in probe / remove
    probe_ret,        \* what gpio_buzzer_probe returned; 0 while it runs
    pc,               \* pc[p]: position of caller p in its handler
    ret,              \* ret[p]: the handler's ret / retvalue; 0 between calls
    databuf,          \* databuf[p][0] of miscbuzzer_write
    state,            \* state[p] of buzzer_store
    buf,              \* buf[p]: the text handed to buzzer_store
    shown,            \* shown[p]: the text buzzer_show printed
    via,              \* via[p]: {f} while p writes through the file f opened, else {}
    sessions,         \* callers whose open() succeeded and who have not closed
    outcome           \* history: result of p's open since dev_stats last became FREE

vars == << buzzer_gpio, buzzer_stats, dev_stats, lock, line, misc_registered,
           attr_file, of_node, plat_pc, probe_ret, pc, ret, databuf, state,
           buf, shown, via, sessions, outcome >>

devvars == << buzzer_gpio, buzzer_stats, dev_stats, lock, line >>
platvars == << misc_registered, attr_file, of_node, plat_pc, probe_ret >>
locals == << ret, databuf, state, buf, shown, via >>

(* ---- library routines the handlers call ------------------------------- *)

\* copy_from_user(to, from, n): the number of bytes that could NOT be copied,
\* never a negative number; the bytes not copied are zeroed in the destination
copy_from_user(readable, n) == IF readable THEN 0 ELSE n
copied_byte(readable, byte) == IF readable THEN byte ELSE 0

IsDigit(c) == c \in {"0", "1", "2", "3", "4", "5", "6", "7", "8", "9"}
DigitVal(c) ==
    CASE c = "0" -> 0 [] c = "1" -> 1 [] c = "2" -> 2 [] c = "3" -> 3
      [] c = "4" -> 4 [] c = "5" -> 5 [] c = "6" -> 6 [] c = "7" -> 7
      [] c = "8" -> 8 [] c = "9" -> 9

\* _parse_integer: consume leading decimal digits of s from index i on;
\* yields the number of digits consumed and their value
RECURSIVE ParseInteger(_, _, _, _)
ParseInteger(s, i, n, acc) ==
    IF i <= Len(s) /\ IsDigit(s[i])
    THEN ParseInteger(s, i + 1, n + 1, acc * 10 + DigitVal(s[i]))
    ELSE [rv |-> n, val |-> acc]

\* kstrtoul(s, 10, &res): an optional '+', at least one digit, an optional
\* single trailing newline and nothing else.  Yields the return value and,
\* on success only, the value stored through res.
kstrtoul(s) ==
    LET start == IF Len(s) >= 1 /\ s[1] = "+" THEN 2 ELSE 1
        p == ParseInteger(s, start, 0, 0)
        after == start + p.rv
        rest == IF after <= Len(s) /\ s[after] = "\n" THEN after + 1 ELSE after
    IN  IF p.rv = 0 \/ rest <= Len(s)
        THEN [err |-> -EINVAL, stored |-> FALSE, val |-> 0]
        ELSE [err |-> 0, stored |-> TRUE, val |-> p.val]

\* sprintf(buf, "%u\n", n) for the values buzzer_stats takes
sprintf_u(n) ==
    IF n = 0 THEN <<"0", "\n">> ELSE IF n = 1 THEN <<"1", "\n">> ELSE <<"?", "\n">>

(* ---- the lock --------------------------------------------------------- *)

\* spin_lock_irqsave spins until the lock is free
spin_lock_irqsave(p) == lock = {} /\ lock' = {p}
spin_unlock_irqrestore(p) == lock' = {}

\* gpio_set_value(miscbuzzer.buzzer_gpio, v)
gpio_set_value(v) == line' = v

Goto(p, l) == pc' = [pc EXCEPT ![p] = l]

(* ---- miscbuzzer_open -------------------------------------------------- *)

\* open() reaches the driver while the misc device is registered
open_call(p) ==
    /\ pc[p] = "idle" /\ misc_registered /\ p \notin sessions
    /\ ret' = [ret EXCEPT ![p] = 0]
    /\ Goto(p, "o_lock")
    /\ UNCHANGED << devvars, platvars, databuf, state, buf, shown, via, sessions, outcome >>

\* open_check without its test of dev_stats: every open is granted
open_check_unguarded(p) ==
    /\ pc[p] = "o_lock"
    /\ spin_lock_irqsave(p)
    /\ dev_stats' = DEV_BUSY
    /\ outcome' = [outcome EXCEPT ![p] = "ok"]
    /\ Goto(p, "o_unlock")
    /\ UNCHANGED << buzzer_gpio, buzzer_stats, line, platvars, locals, sessions >>

\* open_check whose -EBUSY exit "cleans up" by freeing dev_stats
open_check_frees(p) ==
    /\ pc[p] = "o_lock"
    /\ spin_lock_irqsave(p)
    /\ IF dev_stats = DEV_BUSY
       THEN /\ ret' = [ret EXCEPT ![p] = -EBUSY]
            /\ outcome' = [outcome EXCEPT ![p] = "busy"]
            /\ dev_stats' = DEV_FREE
       ELSE /\ dev_stats' = DEV_BUSY
            /\ outcome' = [outcome EXCEPT ![p] = "ok"]
            /\ UNCHANGED ret
    /\ Goto(p, "o_unlock")
    /\ UNCHANGED << buzzer_gpio, buzzer_stats, line, platvars, databuf, state,
                    buf, shown, via, sessions >>

\* spin_lock_irqsave;
\* if (dev_stats == DEV_BUSY) { ret = -EBUSY; goto unlock; } dev_stats = DEV_BUSY;
open_check(p) ==
    /\ pc[p] = "o_lock"
    /\ spin_lock_irqsave(p)
    /\ IF dev_stats = DEV_BUSY
       THEN /\ ret' = [ret EXCEPT ![p] = -EBUSY]
            /\ outcome' = [outcome EXCEPT ![p] = "busy"]
            /\ UNCHANGED dev_stats
       ELSE /\ dev_stats' = DEV_BUSY
            /\ outcome' = [outcome EXCEPT ![p] = "ok"]
            /\ UNCHANGED ret
    /\ Goto(p, "o_unlock")
    /\ UNCHANGED << buzzer_gpio, buzzer_stats, line, platvars, databuf, state,
                    buf, shown, via, sessions >>

\* open_unlock whose -EBUSY exit is a plain "return -EBUSY" in place of
\* "goto unlock": the lock is never given back
open_unlock_leaks(p) ==
    /\ pc[p] = "o_unlock"
    /\ IF ret[p] = -EBUSY THEN UNCHANGED lock ELSE spin_unlock_irqrestore(p)
    /\ sessions' = IF ret[p] = 0 THEN sessions \cup {p} ELSE sessions
    /\ ret' = [ret EXCEPT ![p] = 0]
    /\ Goto(p, "idle")
    /\ UNCHANGED << buzzer_gpio, buzzer_stats, dev_stats, line, platvars, databuf, state,
                    buf, shown, via, outcome >>

\* unlock: spin_unlock_irqrestore; return ret;  ret[p] is what the call
\* returns, and the file is open when it is 0
open_unlock(p) ==
    /\ pc[p] = "o_unlock"
    /\ spin_unlock_irqrestore(p)
    /\ sessions' = IF ret[p] = 0 THEN sessions \cup {p} ELSE sessions
    /\ ret' = [ret EXCEPT ![p] = 0]
    /\ Goto(p, "idle")
    /\ UNCHANGED << buzzer_gpio, buzzer_stats, dev_stats, line, platvars, databuf, state,
                    buf, shown, via, outcome >>

miscbuzzer_open(p) == open_call(p) \/ open_check(p) \/ open_unlock(p)

(* ---- miscbuzzer_write ------------------------------------------------- *)

\* write() through the open file f (file descriptors are shared between
\* threads, so any caller may write through an open file).  The handler
\* takes no lock.  retvalue = copy_from_user(databuf, buf, cnt);
\* if (retvalue < 0) return -EFAULT;
write_call(p, f, readable, byte) ==
    /\ pc[p] = "idle" /\ f \in sessions
    /\ via' = [via EXCEPT ![p] = {f}]
    /\ LET retvalue == copy_from_user(readable, WriteCnt)
       IN  IF retvalue < 0
           THEN /\ ret' = [ret EXCEPT ![p] = -EFAULT]
                /\ Goto(p, "w_ret")
                /\ UNCHANGED databuf
           ELSE /\ ret' = [ret EXCEPT ![p] = retvalue]
                /\ databuf' = [databuf EXCEPT ![p] = copied_byte(readable, byte)]
                /\ Goto(p, "w_gpio")
    /\ UNCHANGED << devvars, platvars, state, buf, shown, sessions, outcome >>

\* write_gpio with "if (buzzerstat)" for "if (buzzerstat == BUZZERON)": every
\* byte that is not 0 switches the buzzer on
write_gpio_nonzero(p) ==
    /\ pc[p] = "w_gpio"
    /\ IF databuf[p] # BUZZEROFF
       THEN gpio_set_value(GPIO_LOW)
       ELSE gpio_set_value(GPIO_HIGH)
    /\ Goto(p, "w_stats")
    /\ UNCHANGED << buzzer_gpio, buzzer_stats, dev_stats, lock, platvars, ret, databuf,
                    state, buf, shown, via, sessions, outcome >>

\* buzzerstat = databuf[0]; the gpio_set_value of the branch taken, or, for a
\* byte that is no state code, straight to return 0
write_gpio(p) ==
    /\ pc[p] = "w_gpio"
    /\ IF databuf[p] = BUZZERON
       THEN gpio_set_value(GPIO_LOW) /\ Goto(p, "w_stats") /\ UNCHANGED ret
       ELSE IF databuf[p] = BUZZEROFF
       THEN gpio_set_value(GPIO_HIGH) /\ Goto(p, "w_stats") /\ UNCHANGED ret
       ELSE UNCHANGED line /\ Goto(p, "w_ret")
    /\ ret' = [ret EXCEPT ![p] = IF pc'[p] = "w_ret" THEN 0 ELSE ret[p]]
    /\ UNCHANGED << buzzer_gpio, buzzer_stats, dev_stats, lock, platvars, databuf, state,
                    buf, shown, via, sessions, outcome >>

\* dev->buzzer_stats = BUZZERON / BUZZEROFF; on to return 0
write_stats(p) ==
    /\ pc[p] = "w_stats"
    /\ buzzer_stats' = databuf[p]
    /\ ret' = [ret EXCEPT ![p] = 0]
    /\ Goto(p, "w_ret")
    /\ UNCHANGED << buzzer_gpio, dev_stats, lock, line, platvars, databuf, state, buf,
                    shown, via, sessions, outcome >>

\* the handler returns ret[p]: 0, or the -EFAULT of the early return; the
\* reference on the file is dropped
write_ret(p) ==
    /\ pc[p] = "w_ret"
    /\ ret' = [ret EXCEPT ![p] = 0]
    /\ via' = [via EXCEPT ![p] = {}]
    /\ databuf' = [databuf EXCEPT ![p] = 0]
    /\ Goto(p, "idle")
    /\ UNCHANGED << devvars, platvars, state, buf, shown, sessions, outcome >>

miscbuzzer_write(p) ==
    \/ \E f \in Callers, readable \in BOOLEAN, byte \in Bytes : write_call(p, f, readable, byte)
    \/ write_gpio(p) \/ write_stats(p) \/ write_ret(p)

(* ---- miscbuzzer_release ----------------------------------------------- *)

\* close() of the file p opened; the kernel calls release once the last
\* reference is gone, so not while a write through the file is running
release_call(p) ==
    /\ pc[p] = "idle" /\ p \in sessions
    /\ \A q \in Callers : via[q] # {p}
    /\ sessions' = sessions \ {p}
    /\ Goto(p, "r_lock")
    /\ UNCHANGED << devvars, platvars, locals, outcome >>

\* release_check that also switches the buzzer off when the session ends
release_check_silences(p) ==
    /\ pc[p] = "r_lock"
    /\ spin_lock_irqsave(p)
    /\ IF dev_stats = DEV_BUSY
       THEN /\ dev_stats' = DEV_FREE
            /\ outcome' = [q \in Callers |-> "none"]
       ELSE UNCHANGED << dev_stats, outcome >>
    /\ gpio_set_value(GPIO_HIGH)
    /\ buzzer_stats' = BUZZEROFF
    /\ Goto(p, "r_unlock")
    /\ UNCHANGED << buzzer_gpio, platvars, locals, sessions >>

\* spin_lock_irqsave; if (dev->dev_stats == DEV_BUSY) dev->dev_stats = DEV_FREE;
release_check(p) ==
    /\ pc[p] = "r_lock"
    /\ spin_lock_irqsave(p)
    /\ IF dev_stats = DEV_BUSY
       THEN /\ dev_stats' = DEV_FREE
            /\ outcome' = [q \in Callers |-> "none"]
       ELSE UNCHANGED << dev_stats, outcome >>
    /\ Goto(p, "r_unlock")
    /\ UNCHANGED << buzzer_gpio, buzzer_stats, line, platvars, locals, sessions >>

\* spin_unlock_irqrestore; return 0
release_unlock(p) ==
    /\ pc[p] = "r_unlock"
    /\ spin_unlock_irqrestore(p)
    /\ Goto(p, "idle")
    /\ UNCHANGED << buzzer_gpio, buzzer_stats, dev_stats, line, platvars, locals,
                    sessions, outcome >>

miscbuzzer_release(p) ==
    release_call(p) \/ release_check(p) \/ release_unlock(p)

(* ---- buzzer_show ------------------------------------------------------ *)

\* a read of the attribute reaches the driver while the sysfs file exists;
\* return sprintf(buf, "%u\n", miscbuzzer.buzzer_stats);  no lock is taken
show_read(p) ==
    /\ pc[p] = "idle" /\ attr_file
    /\ shown' = [shown EXCEPT ![p] = sprintf_u(buzzer_stats)]
    /\ ret' = [ret EXCEPT ![p] = Len(sprintf_u(buzzer_stats))]
    /\ Goto(p, "sh_ret")
    /\ UNCHANGED << devvars, platvars, databuf, state, buf, via, sessions, outcome >>

show_ret(p) ==
    /\ pc[p] = "sh_ret"
    /\ shown' = [shown EXCEPT ![p] = NoText]
    /\ ret' = [ret EXCEPT ![p] = 0]
    /\ Goto(p, "idle")
    /\ UNCHANGED << devvars, platvars, databuf, state, buf, via, sessions, outcome >>

buzzer_show(p) == show_read(p) \/ show_ret(p)

(* ---- buzzer_store ----------------------------------------------------- *)

\* a write to the attribute reaches the driver while the sysfs file exists
store_call(p) ==
    /\ pc[p] = "idle" /\ attr_file
    /\ Goto(p, "s_lock")
    /\ UNCHANGED << devvars, platvars, locals, sessions, outcome >>

\* store_check without its test of dev_stats: the text is applied although a
\* session holds the device
store_check_unguarded(p, text) ==
    /\ pc[p] = "s_lock"
    /\ spin_lock_irqsave(p)
    /\ buf' = [buf EXCEPT ![p] = text]
    /\ dev_stats' = DEV_BUSY
    /\ LET r == kstrtoul(text)
       IN  /\ ret' = [ret EXCEPT ![p] = r.err]
           /\ \E v \in (IF r.stored THEN {r.val} ELSE Garbage) :
                  state' = [state EXCEPT ![p] = v]
    /\ Goto(p, "s_gpio")
    /\ UNCHANGED << buzzer_gpio, buzzer_stats, line, platvars, databuf, shown,
                    via, sessions, outcome >>

\* spin_lock_irqsave;
\* if (dev_stats == DEV_BUSY) { ret = -EBUSY; goto unlock; } dev_stats = DEV_BUSY;
\* ret = kstrtoul(buf, 10, &state);  state is assigned on success only and
\* has no initialiser, so after a failed parse it holds any value.
\* text is what the caller wrote (buf), size its length.
store_check(p, text) ==
    /\ pc[p] = "s_lock"
    /\ spin_lock_irqsave(p)
    /\ buf' = [buf EXCEPT ![p] = text]
    /\ IF dev_stats = DEV_BUSY
       THEN /\ ret' = [ret EXCEPT ![p] = -EBUSY]
            /\ Goto(p, "s_unlock")
            /\ UNCHANGED << dev_stats, state >>
       ELSE /\ dev_stats' = DEV_BUSY
            /\ LET r == kstrtoul(text)
               IN  /\ ret' = [ret EXCEPT ![p] = r.err]
                   /\ \E v \in (IF r.stored THEN {r.val} ELSE Garbage) :
                          state' = [state EXCEPT ![p] = v]
            /\ Goto(p, "s_gpio")
    /\ UNCHANGED << buzzer_gpio, buzzer_stats, line, platvars, databuf, shown,
                    via, sessions, outcome >>

\* store_gpio with the two levels exchanged, as for a buzzer wired active-high
store_gpio_active_high(p) ==
    /\ pc[p] = "s_gpio"
    /\ IF state[p] = BUZZERON
       THEN /\ gpio_set_value(GPIO_HIGH) /\ Goto(p, "s_stats")
            /\ UNCHANGED << dev_stats, ret >>
       ELSE IF state[p] = BUZZEROFF
       THEN /\ gpio_set_value(GPIO_LOW) /\ Goto(p, "s_stats")
            /\ UNCHANGED << dev_stats, ret >>
       ELSE /\ UNCHANGED line /\ Goto(p, "s_unlock")
            /\ dev_stats' = DEV_FREE
            /\ ret' = [ret EXCEPT ![p] = Len(buf[p])]
    /\ UNCHANGED << buzzer_gpio, buzzer_stats, lock, platvars, databuf, state, buf,
                    shown, via, sessions, outcome >>

\* store_gpio that leaves for unlock on a value that is no state code without
\* dev_stats = DEV_FREE: the provisional BUSY stays
store_gpio_leaves_busy(p) ==
    /\ pc[p] = "s_gpio"
    /\ IF state[p] = BUZZERON
       THEN /\ gpio_set_value(GPIO_LOW) /\ Goto(p, "s_stats")
            /\ UNCHANGED << dev_stats, ret >>
       ELSE IF state[p] = BUZZEROFF
       THEN /\ gpio_set_value(GPIO_HIGH) /\ Goto(p, "s_stats")
            /\ UNCHANGED << dev_stats, ret >>
       ELSE /\ UNCHANGED << line, dev_stats >> /\ Goto(p, "s_unlock")
            /\ ret' = [ret EXCEPT ![p] = Len(buf[p])]
    /\ UNCHANGED << buzzer_gpio, buzzer_stats, lock, platvars, databuf, state, buf,
                    shown, via, sessions, outcome >>

\* the gpio_set_value of the branch taken on state;  where no branch is
\* taken, on to  dev_stats = DEV_FREE; ret = size;
store_gpio(p) ==
    /\ pc[p] = "s_gpio"
    /\ IF state[p] = BUZZERON
       THEN /\ gpio_set_value(GPIO_LOW) /\ Goto(p, "s_stats")
            /\ UNCHANGED << dev_stats, ret >>
       ELSE IF state[p] = BUZZEROFF
       THEN /\ gpio_set_value(GPIO_HIGH) /\ Goto(p, "s_stats")
            /\ UNCHANGED << dev_stats, ret >>
       ELSE /\ UNCHANGED line /\ Goto(p, "s_unlock")
            /\ dev_stats' = DEV_FREE
            /\ ret' = [ret EXCEPT ![p] = Len(buf[p])]
    /\ UNCHANGED << buzzer_gpio, buzzer_stats, lock, platvars, databuf, state, buf,
                    shown, via, sessions, outcome >>

\* store_stats that forgets  dev_stats = DEV_FREE: the provisional BUSY stays
store_stats_stays_busy(p) ==
    /\ pc[p] = "s_stats"
    /\ buzzer_stats' = state[p]
    /\ ret' = [ret EXCEPT ![p] = Len(buf[p])]
    /\ Goto(p, "s_unlock")
    /\ UNCHANGED << buzzer_gpio, dev_stats, lock, line, platvars, databuf, state, buf,
                    shown, via, sessions, outcome >>

\* miscbuzzer.buzzer_stats = BUZZERON / BUZZEROFF;
\* miscbuzzer.dev_stats = DEV_FREE; ret = size;
\* (dev_stats is read under the lock only, which this caller holds)
store_stats(p) ==
    /\ pc[p] = "s_stats"
    /\ buzzer_stats' = state[p]
    /\ dev_stats' = DEV_FREE
    /\ ret' = [ret EXCEPT ![p] = Len(buf[p])]
    /\ Goto(p, "s_unlock")
    /\ UNCHANGED << buzzer_gpio, lock, line, platvars, databuf, state, buf, shown, via,
                    sessions, outcome >>

\* unlock: spin_unlock_irqrestore; return ret;  ret[p] is what the call returns
store_unlock(p) ==
    /\ pc[p] = "s_unlock"
    /\ spin_unlock_irqrestore(p)
    /\ buf' = [buf EXCEPT ![p] = NoText]
    /\ state' = [state EXCEPT ![p] = 0]
    /\ ret' = [ret EXCEPT ![p] = 0]
    /\ Goto(p, "idle")
    /\ UNCHANGED << buzzer_gpio, buzzer_stats, dev_stats, line, platvars, databuf,
                    shown, via, sessions, outcome >>

buzzer_store(p) ==
    \/ store_call(p)
    \/ \E text \in Texts : store_check(p, text)
    \/ store_gpio(p)
    \/ store_stats(p) \/ store_unlock(p)

(* ---- gpio_buzzer_probe ------------------------------------------------ *)

\* the platform core binds the driver to the device, also again after a
\* probe that failed or a remove;
\* buzzer_gpio = of_get_named_gpio(...); if (buzzer_gpio < 0) return -EINVAL;
probe_gpio ==
    /\ plat_pc \in {"unbound", "failed"}
    /\ buzzer_gpio' = IF of_node.gpios THEN GpioNum ELSE -EINVAL
    /\ IF buzzer_gpio' < 0
       THEN probe_ret' = -EINVAL /\ plat_pc' = "failed"
       ELSE probe_ret' = 0 /\ plat_pc' = "p_misc"
    /\ UNCHANGED << buzzer_stats, dev_stats, lock, line, misc_registered, attr_file,
                    of_node, pc, locals, sessions, outcome >>

\* ret = misc_register(&buzzer_miscdev); if (ret < 0) return -EFAULT;
\* registering fails when the host refuses, or when buzzer_miscdev is
\* still registered
probe_misc ==
    /\ plat_pc = "p_misc"
    /\ \E ok \in (IF misc_registered THEN {FALSE} ELSE BOOLEAN) :
           IF ok
           THEN misc_registered' = TRUE /\ plat_pc' = "p_file" /\ UNCHANGED probe_ret
           ELSE UNCHANGED misc_registered /\ plat_pc' = "failed" /\ probe_ret' = -EFAULT
    /\ UNCHANGED << devvars, attr_file, of_node, pc, locals, sessions, outcome >>

\* ret = device_create_file(...); if (ret) return -EFAULT;
probe_file ==
    /\ plat_pc = "p_file"
    /\ \E ok \in BOOLEAN :
           IF ok
           THEN attr_file' = TRUE /\ plat_pc' = "p_stats" /\ UNCHANGED probe_ret
           ELSE UNCHANGED attr_file /\ plat_pc' = "failed" /\ probe_ret' = -EFAULT
    /\ UNCHANGED << devvars, misc_registered, of_node, pc, locals, sessions, outcome >>

\* miscbuzzer.dev_stats = DEV_FREE;
probe_stats ==
    /\ plat_pc = "p_stats"
    /\ dev_stats' = DEV_FREE
    /\ outcome' = [q \in Callers |-> "none"]
    /\ plat_pc' = "p_lockinit"
    /\ UNCHANGED << buzzer_gpio, buzzer_stats, lock, line, misc_registered, attr_file,
                    of_node, probe_ret, pc, locals, sessions >>

\* spin_lock_init(&miscbuzzer.lock): the lock is free afterwards, whoever held it
probe_lockinit ==
    /\ plat_pc = "p_lockinit"
    /\ lock' = {}
    /\ plat_pc' = "p_dir"
    /\ UNCHANGED << buzzer_gpio, buzzer_stats, dev_stats, line, misc_registered,
                    attr_file, of_node, probe_ret, pc, locals, sessions, outcome >>

\* ret = gpio_direction_output(buzzer_gpio, GPIO_OUTPUT); if (ret) return -EFAULT;
\* on success the line is an output driving the value given
probe_dir ==
    /\ plat_pc = "p_dir"
    /\ \E ok \in BOOLEAN :
           IF ok
           THEN line' = GPIO_OUTPUT /\ plat_pc' = "p_default" /\ UNCHANGED probe_ret
           ELSE UNCHANGED line /\ plat_pc' = "failed" /\ probe_ret' = -EFAULT
    /\ UNCHANGED << buzzer_gpio, buzzer_stats, dev_stats, lock, misc_registered,
                    attr_file, of_node, pc, locals, sessions, outcome >>

\* if (!of_property_read_string(..., "default-state", &state))
\*     gpio_set_value(gpio, !strcmp(state, "on") ? GPIO_LOW : GPIO_HIGH);
\* miscbuzzer.device = &pdev->dev; return ret;
probe_default ==
    /\ plat_pc = "p_default"
    /\ IF of_node.default_state = "none"
       THEN UNCHANGED line
       ELSE IF of_node.default_state = "on"
       THEN gpio_set_value(GPIO_LOW)
       ELSE gpio_set_value(GPIO_HIGH)
    /\ probe_ret' = 0
    /\ plat_pc' = "bound"
    /\ UNCHANGED << buzzer_gpio, buzzer_stats, dev_stats, lock, misc_registered,
                    attr_file, of_node, pc, locals, sessions, outcome >>

gpio_buzzer_probe ==
    \/ probe_gpio \/ probe_misc \/ probe_file \/ probe_stats
    \/ probe_lockinit \/ probe_dir \/ probe_default

(* ---- gpio_buzzer_remove ----------------------------------------------- *)

\* the platform core unbinds the driver;  gpio_set_value(gpio, GPIO_HIGH);
remove_gpio ==
    /\ plat_pc = "bound"
    /\ gpio_set_value(GPIO_HIGH)
    /\ plat_pc' = "rm_stats"
    /\ UNCHANGED << buzzer_gpio, buzzer_stats, dev_stats, lock, misc_registered,
                    attr_file, of_node, probe_ret, pc, locals, sessions, outcome >>

\* remove_stats without line 229: the driver goes away with buzzer_stats as
\* the last write left it
remove_stats_keeps ==
    /\ plat_pc = "rm_stats"
    /\ plat_pc' = "rm_file"
    /\ UNCHANGED << devvars, misc_registered, attr_file, of_node, probe_ret, pc,
                    locals, sessions, outcome >>

\* miscbuzzer.buzzer_stats = BUZZEROFF;
remove_stats ==
    /\ plat_pc = "rm_stats"
    /\ buzzer_stats' = BUZZEROFF
    /\ plat_pc' = "rm_file"
    /\ UNCHANGED << buzzer_gpio, dev_stats, lock, line, misc_registered, attr_file,
                    of_node, probe_ret, pc, locals, sessions, outcome >>

\* device_remove_file(...): sysfs waits for the show / store calls that are
\* running and lets no new one in
remove_file ==
    /\ plat_pc = "rm_file"
    /\ \A p \in Callers :
           pc[p] \notin {"sh_ret", "s_lock", "s_gpio", "s_stats", "s_unlock"}
    /\ attr_file' = FALSE
    /\ plat_pc' = "rm_misc"
    /\ UNCHANGED << devvars, misc_registered, of_node, probe_ret, pc, locals, sessions,
                    outcome >>

\* misc_deregister(&buzzer_miscdev); return 0;  files that are open stay open
remove_misc ==
    /\ plat_pc = "rm_misc"
    /\ misc_registered' = FALSE
    /\ plat_pc' = "unbound"
    /\ UNCHANGED << devvars, attr_file, of_node, probe_ret, pc, locals, sessions, outcome >>

gpio_buzzer_remove == remove_gpio \/ remove_stats \/ remove_file \/ remove_misc

(* ---- specifications --------------------------------------------------- *)

\* the module is loaded: miscbuzzer is a zeroed global, nothing is registered,
\* and the line, not yet driven, is pulled to the level at which the buzzer
\* is silent
Init ==
    /\ buzzer_gpio = 0
    /\ buzzer_stats = 0
    /\ dev_stats = 0
    /\ lock = {}
    /\ line = GPIO_HIGH
    /\ misc_registered = FALSE
    /\ attr_file = FALSE
    /\ of_node \in OfNodes
    /\ plat_pc = "unbound"
    /\ probe_ret = 0
    /\ pc = [p \in Callers |-> "idle"]
    /\ ret = [p \in Callers |-> 0]
    /\ databuf = [p \in Callers |-> 0]
    /\ state = [p \in Callers |-> 0]
    /\ buf = [p \in Callers |-> NoText]
    /\ shown = [p \in Callers |-> NoText]
    /\ via = [p \in Callers |-> {}]
    /\ sessions = {}
    /\ outcome = [p \in Callers |-> "none"]

Handlers ==
    \E p \in Callers :
        \/ miscbuzzer_open(p) \/ miscbuzzer_write(p) \/ miscbuzzer_release(p)
        \/ buzzer_show(p) \/ buzzer_store(p)

Next == Handlers \/ gpio_buzzer_probe \/ gpio_buzzer_remove

Spec == Init /\ [][Next]_vars

\* the device right after a first gpio_buzzer_probe that succeeded and that
\* no caller ran into: what the steps of gpio_buzzer_probe leave behind
InitAttached ==
    /\ buzzer_gpio = GpioNum
    /\ buzzer_stats = 0
    /\ dev_stats = DEV_FREE
    /\ lock = {}
    /\ of_node \in {n \in OfNodes : n.gpios}
    /\ line = (IF of_node.default_state = "on" THEN GPIO_LOW ELSE GPIO_HIGH)
    /\ misc_registered = TRUE
    /\ attr_file = TRUE
    /\ plat_pc = "bound"
    /\ probe_ret = 0
    /\ pc = [p \in Callers |-> "idle"]
    /\ ret = [p \in Callers |-> 0]
    /\ databuf = [p \in Callers |-> 0]
    /\ state = [p \in Callers |-> 0]
    /\ buf = [p \in Callers |-> NoText]
    /\ shown = [p \in Callers |-> NoText]
    /\ via = [p \in Callers |-> {}]
    /\ sessions = {}
    /\ outcome = [p \in Callers |-> "none"]

\* one attachment: the handlers alone, the driver staying bound
SpecAttached == InitAttached /\ [][Handlers]_vars

\* at most one miscbuzzer_write is running
SoleWriter == Cardinality({p \in Callers : pc[p] \in {"w_gpio", "w_stats", "w_ret"}}) <= 1

\* one attachment in which the callers never run two miscbuzzer_write at the
\* same time; everything else interleaves as in SpecAttached
SpecSoleWriter == InitAttached /\ [][Handlers /\ SoleWriter']_vars

\* the steps at which a handler takes the lock
LockStep(p) ==
    open_check(p) \/ release_check(p) \/ \E text \in Texts : store_check(p, text)

\* the other steps of a handler that has been entered
RunStep(p) ==
    \/ open_unlock(p)
    \/ write_gpio(p) \/ write_stats(p) \/ write_ret(p)
    \/ release_unlock(p)
    \/ show_ret(p)
    \/ store_gpio(p) \/ store_stats(p) \/ store_unlock(p)

\* fair scheduling: a handler that can run does run (none of them sleeps),
\* and the spinlock hands the lock to every waiter in turn.  Whether and
\* when a caller enters a handler is left open.
Fairness == \A p \in Callers : WF_vars(RunStep(p)) /\ SF_vars(LockStep(p))

\* one attachment under fair scheduling
SpecFair == InitAttached /\ [][Handlers]_vars /\ Fairness

(* ---- what the claims speak about -------------------------------------- *)

\* the exclusive sessions that are open: granted and not yet closed
OpenSessions == sessions \cup {p \in Callers : pc[p] = "o_unlock" /\ ret[p] = 0}

\* read_status: what buzzer_show prints for the current buzzer_stats
read_status == sprintf_u(buzzer_stats)
StatusON == <<"1", "\n">>
StatusOFF == <<"0", "\n">>

WritePcs == {"w_gpio", "w_stats", "w_ret"}
StorePcs == {"s_lock", "s_gpio", "s_stats", "s_unlock"}

\* p takes a step
Steps(p) == pc'[p] # pc[p]

(* ---- C1 ---------------------------------------------------------------- *)

\* C1: while the device stays attached, at most one exclusive session is open
\* in any state, and an open that ran its check while another caller's
\* session is open is returning -EBUSY.
C1_ExclusiveSession ==
    /\ Cardinality(OpenSessions) <= 1
    /\ \A p \in Callers :
           (pc[p] = "o_unlock" /\ sessions \ {p} # {}) => ret[p] = -EBUSY

\* C1 witness: a session is open and another caller's open is returning -EBUSY
C1_Witness ==
    \E p, q \in Callers :
        p # q /\ q \in sessions /\ pc[p] = "o_unlock" /\ ret[p] = -EBUSY

(* ---- C2 ---------------------------------------------------------------- *)

\* C2: of the opens that ran their check since dev_stats last became FREE,
\* with no close in between, exactly one was granted and all the others got
\* -EBUSY; and no step of an open that is refused changes dev_stats,
\* buzzer_stats or the line.
C2_ConcurrentOpen ==
    /\ [](({p \in Callers : outcome[p] # "none"} # {})
            => Cardinality({p \in Callers : outcome[p] = "ok"}) = 1)
    /\ [][\A p \in Callers :
            (/\ pc[p] \in {"o_lock", "o_unlock"}
             /\ Steps(p)
             /\ (ret[p] = -EBUSY \/ ret'[p] = -EBUSY))
            => UNCHANGED << dev_stats, buzzer_stats, line >>]_vars

\* C2 witness: every caller has had its open checked, one was granted and the
\* rest refused, and a refused one is about to return
C2_Witness ==
    /\ \A p \in Callers : outcome[p] # "none"
    /\ Cardinality({p \in Callers : outcome[p] = "busy"}) = NumCallers - 1
    /\ \E p \in Callers : pc[p] = "o_unlock" /\ ret[p] = -EBUSY

(* ---- C3 ---------------------------------------------------------------- *)

\* no write through a session and no attribute write is in progress
NoWriteInProgress == \A p \in Callers : pc[p] \notin (WritePcs \cup StorePcs)

\* C3 (as claimed): whenever no write is in progress, buzzer_stats is ON
\* exactly when the line is LOW.  Stated for the attachments that start with
\* the two in agreement (no default-state "on").
C3_StateMatchesLine ==
    (of_node.default_state # "on" /\ NoWriteInProgress)
        => ((buzzer_stats = BUZZERON) <=> (line = GPIO_LOW))

(* ---- C4 ---------------------------------------------------------------- *)

\* C4 (as claimed): every step of a handler that changes dev_stats,
\* buzzer_stats or the line is taken by the caller that holds the lock.
C4_MutationUnderLock ==
    [][(dev_stats' # dev_stats \/ buzzer_stats' # buzzer_stats \/ line' # line)
        => \E p \in Callers : Steps(p) /\ lock' = {p}]_vars

(* ---- C5 ---------------------------------------------------------------- *)

\* C5 (as claimed): when gpio_buzzer_probe returns success, the status reads
\* OFF if no default-state is configured, and reads ON with the line LOW if
\* default-state is "on".
C5_DefaultState ==
    [][(plat_pc = "p_default" /\ plat_pc' = "bound")
        => /\ (of_node.default_state = "none" => read_status' = StatusOFF)
           /\ (of_node.default_state = "on"
                  => (read_status' = StatusON /\ line' = GPIO_LOW))]_vars

(* ---- C6 ---------------------------------------------------------------- *)

\* C6 (as claimed): a write whose copy_from_user left bytes uncopied goes,
\* with its next step, to the return of -EFAULT without changing the line or
\* buzzer_stats; and -EFAULT is returned by no other write.
C6_FaultReported ==
    [][\A p \in Callers :
        /\ (pc[p] \in {"w_gpio", "w_stats"} /\ ret[p] > 0 /\ Steps(p))
             => (/\ pc'[p] = "w_ret" /\ ret'[p] = -EFAULT
                 /\ UNCHANGED << line, buzzer_stats >>)
        /\ (pc[p] \in {"w_gpio", "w_stats"} /\ ret[p] = 0 /\ Steps(p))
             => ret'[p] # -EFAULT]_vars

(* ---- C7 ---------------------------------------------------------------- *)

\* C7 (as claimed): a buzzer_store that was not refused with -EBUSY and whose
\* text kstrtoul rejects returns kstrtoul's error.
C7_ParseFaultSurfaced ==
    \A p \in Callers :
        (pc[p] = "s_unlock" /\ ret[p] # -EBUSY /\ kstrtoul(buf[p]).err # 0)
            => ret[p] = kstrtoul(buf[p]).err

(* ---- C8 ---------------------------------------------------------------- *)

\* C8: a buzzer_store that runs its check while an exclusive session is open
\* takes the -EBUSY exit, and neither that step nor its return changes
\* buzzer_stats, the line, dev_stats (which stays BUSY) or the open sessions.
C8_StoreBusy ==
    [][\A p \in Callers :
        /\ (pc[p] = "s_lock" /\ Steps(p) /\ OpenSessions # {})
             => (/\ pc'[p] = "s_unlock" /\ ret'[p] = -EBUSY
                 /\ dev_stats' = DEV_BUSY
                 /\ UNCHANGED << buzzer_stats, line, dev_stats, sessions >>)
        /\ (pc[p] = "s_unlock" /\ ret[p] = -EBUSY /\ Steps(p))
             => (/\ pc'[p] = "idle"
                 /\ UNCHANGED << buzzer_stats, line, dev_stats, sessions >>)]_vars

\* C8 witness: with a session open, a buzzer_store is returning -EBUSY
C8_Witness ==
    \E p \in Callers :
        /\ pc[p] = "s_unlock" /\ ret[p] = -EBUSY
        /\ sessions # {} /\ dev_stats = DEV_BUSY

(* ---- C9 ---------------------------------------------------------------- *)

\* C9 (as claimed): when gpio_buzzer_remove returns, dev_stats is DEV_FREE.
C9_RemoveFreesSession ==
    [][(plat_pc = "rm_misc" /\ plat_pc' = "unbound") => dev_stats' = DEV_FREE]_vars

(* ---- C10 --------------------------------------------------------------- *)

\* C10 (as claimed): when gpio_buzzer_probe fails because "gpios" does not
\* resolve or because gpio_direction_output fails, neither the misc device
\* nor the sysfs file is left registered.
C10_FailedProbeOffline ==
    [][(\/ (plat_pc' = "failed" /\ probe_ret' = -EINVAL)
        \/ (plat_pc = "p_dir" /\ plat_pc' = "failed"))
        => (~misc_registered' /\ ~attr_file')]_vars

(* ---- C11 --------------------------------------------------------------- *)

\* the steps by which a caller newly reaches the driver: open(), and a read
\* or a write of the sysfs attribute
Enters(p) == pc[p] = "idle" /\ pc'[p] \in {"o_lock", "s_lock", "sh_ret"}

\* C11: gpio_buzzer_remove, whatever buzzer_stats and the line were (ON and
\* LOW included), drives the line HIGH, then sets buzzer_stats to OFF, and
\* returns with the misc device and the sysfs file both unregistered; and
\* while the driver is unbound no caller enters open, store or show.
C11_RemoveSilences ==
    [][/\ (plat_pc = "bound" /\ plat_pc' = "rm_stats") => line' = GPIO_HIGH
       /\ (plat_pc = "rm_stats" /\ plat_pc' = "rm_file")
             => (buzzer_stats' = BUZZEROFF /\ read_status' = StatusOFF)
       /\ (plat_pc = "rm_misc" /\ plat_pc' = "unbound")
             => (~misc_registered' /\ ~attr_file')
       /\ (plat_pc = "unbound") => \A p \in Callers : ~Enters(p)]_vars

\* C11 witness: the driver was unbound with the buzzer ON; remove has driven
\* the line HIGH and is about to reset buzzer_stats
C11_Witness ==
    /\ plat_pc = "rm_stats"
    /\ buzzer_stats = BUZZERON
    /\ line = GPIO_HIGH
    /\ \A p \in Callers : pc[p] = "idle"

(* ---- C12 --------------------------------------------------------------- *)

\* C12: with no other write running, a miscbuzzer_write that is about to
\* return returns 0, and whatever buzzer_stats was before: after byte 1
\* buzzer_show prints "1" and the line is LOW; after byte 0 it prints "0" and
\* the line is HIGH; and while a write of any other byte is running no step
\* changes buzzer_stats or the line.
C12_WriteThenRead ==
    /\ [](\A p \in Callers : pc[p] = "w_ret" =>
            /\ ret[p] = 0
            /\ databuf[p] = BUZZERON => (read_status = StatusON /\ line = GPIO_LOW)
            /\ databuf[p] = BUZZEROFF => (read_status = StatusOFF /\ line = GPIO_HIGH))
    /\ [][(\E p \in Callers :
              pc[p] \in WritePcs /\ databuf[p] \notin {BUZZERON, BUZZEROFF})
          => UNCHANGED << buzzer_stats, line >>]_vars

\* C12 witness: the buzzer is ON and a write of byte 2 is about to return
C12_Witness ==
    \E p \in Callers :
        /\ pc[p] = "w_ret" /\ databuf[p] = 2
        /\ buzzer_stats = BUZZERON /\ line = GPIO_LOW

(* ---- C13 --------------------------------------------------------------- *)

\* p is inside a buzzer_store that found no session open (it passed the
\* check of dev_stats) and whose text kstrtoul accepted
StoreAccepted(p) ==
    /\ \/ pc[p] \in {"s_gpio", "s_stats"}
       \/ (pc[p] = "s_unlock" /\ ret[p] # -EBUSY)
    /\ kstrtoul(buf[p]).err = 0

\* C13: a buzzer_store that found no session open and is about to return
\* returns the length of its text; if the text parsed to 1, buzzer_stats is
\* ON and the line LOW; if to 0, buzzer_stats is OFF and the line HIGH; and
\* while a store whose text parsed to any other integer is running, no step
\* changes buzzer_stats or the line.
C13_StoreApplies ==
    /\ [](\A p \in Callers : (pc[p] = "s_unlock" /\ StoreAccepted(p)) =>
            /\ ret[p] = Len(buf[p])
            /\ kstrtoul(buf[p]).val = 1 => (buzzer_stats = BUZZERON /\ line = GPIO_LOW)
            /\ kstrtoul(buf[p]).val = 0 => (buzzer_stats = BUZZEROFF /\ line = GPIO_HIGH))
    /\ [][(\E p \in Callers : StoreAccepted(p) /\ kstrtoul(buf[p]).val \notin {0, 1})
          => UNCHANGED << buzzer_stats, line >>]_vars

\* C13 witness: a store of "1\n" is about to return 2 with the buzzer ON
C13_Witness ==
    \E p \in Callers :
        /\ pc[p] = "s_unlock" /\ buf[p] = <<"1", "\n">> /\ ret[p] = 2
        /\ buzzer_stats = BUZZERON /\ line = GPIO_LOW
        /\ sessions = {}

(* ---- C14 --------------------------------------------------------------- *)

\* C14: every step of miscbuzzer_release leaves buzzer_stats and the line as
\* they are and the return value at 0; the step that tests dev_stats leaves
\* it DEV_FREE, and where it finds DEV_FREE already it changes nothing of the
\* device but the lock it takes; the return changes nothing of the device
\* but the lock it gives back.
C14_ReleaseFrees ==
    [][\A p \in Callers :
        (pc[p] \in {"r_lock", "r_unlock"} /\ Steps(p))
            => /\ UNCHANGED << buzzer_stats, line >>
               /\ ret[p] = 0 /\ ret'[p] = 0
               /\ pc[p] = "r_lock"
                    => /\ dev_stats' = DEV_FREE
                       /\ dev_stats = DEV_FREE
                            => UNCHANGED << buzzer_gpio, buzzer_stats, dev_stats, line,
                                            sessions >>
               /\ pc[p] = "r_unlock"
                    => (pc'[p] = "idle" /\ UNCHANGED << dev_stats, sessions >>)]_vars

\* C14 witness: the buzzer is ON, one close has run its test and is about to
\* return, and a second close is waiting with dev_stats already DEV_FREE
C14_Witness ==
    \E p, q \in Callers :
        /\ pc[p] = "r_unlock" /\ pc[q] = "r_lock"
        /\ dev_stats = DEV_FREE
        /\ buzzer_stats = BUZZERON /\ line = GPIO_LOW

(* ---- C15 --------------------------------------------------------------- *)

\* no session is open and no close is still on its way to freeing dev_stats
AllClosed == OpenSessions = {} /\ \A q \in Callers : pc[q] # "r_lock"

\* C15: an open that runs its check when every session has been closed (the
\* holder's close has returned and no other open was granted since) is
\* granted: it returns 0 and sets dev_stats to BUSY, whichever writes,
\* stores (applied, refused with -EBUSY, or with a text that does not parse)
\* and shows ran before or are running.
C15_OpenAfterClose ==
    [][\A p \in Callers :
        (pc[p] = "o_lock" /\ Steps(p) /\ AllClosed)
            => (pc'[p] = "o_unlock" /\ ret'[p] = 0 /\ dev_stats' = DEV_BUSY)]_vars

\* C15 witness: after calls that switched the buzzer on, no session is left
\* open, a store is waiting for the lock, and an open has just been granted
C15_Witness ==
    \E p, q \in Callers :
        /\ pc[p] = "o_unlock" /\ ret[p] = 0 /\ sessions = {}
        /\ pc[q] = "s_lock"
        /\ buzzer_stats = BUZZERON /\ of_node.default_state = "none"

(* ---- C16 --------------------------------------------------------------- *)

\* the sessions that hold dev_stats: granted, and not yet freed by the
\* test in miscbuzzer_release
HeldSessions == OpenSessions \cup {p \in Callers : pc[p] = "r_lock"}

\* C16: whenever the lock is free, dev_stats is BUSY exactly when one
\* session is held; a buzzer_store between its check and its return holds
\* the lock, and has dev_stats back at FREE when it is about to unlock
\* after passing the check; and dev_stats goes from BUSY to FREE only by the
\* test in the release of the session, or by the store that set it, under
\* the lock.
C16_BusyMeansSession ==
    /\ [](lock = {} => ((dev_stats = DEV_BUSY) <=> (Cardinality(HeldSessions) = 1)))
    /\ [](\A p \in Callers :
            /\ pc[p] \in {"s_gpio", "s_stats", "s_unlock"} => lock = {p}
            /\ (pc[p] = "s_unlock" /\ ret[p] # -EBUSY) => dev_stats = DEV_FREE)
    /\ [][(dev_stats = DEV_BUSY /\ dev_stats' = DEV_FREE)
          => \E p \in Callers :
                /\ Steps(p)
                /\ \/ (pc[p] = "r_lock" /\ HeldSessions = {p})
                   \/ (pc[p] \in {"s_gpio", "s_stats"} /\ lock = {p}
                        /\ HeldSessions = {})]_vars

\* C16 witness: a store that passed the check has cleared its provisional
\* BUSY and still holds the lock, while an open waits for the lock
C16_Witness ==
    \E p, q \in Callers :
        /\ pc[p] = "s_unlock" /\ ret[p] = Len(buf[p]) /\ lock = {p}
        /\ dev_stats = DEV_FREE
        /\ pc[q] = "o_lock"

(* ---- C17 --------------------------------------------------------------- *)

\* C17 (as claimed): when gpio_buzzer_probe sets dev_stats to DEV_FREE no
\* session is open, none having been opened before the initialisation; so
\* probe never overwrites the BUSY of an open session.
C17_InitBeforeReachable ==
    [][(plat_pc = "p_stats" /\ plat_pc' = "p_lockinit") => OpenSessions = {}]_vars

(* ---- C18 --------------------------------------------------------------- *)

\* C18 (as claimed): the steps of a buzzer_store that passed the check and
\* whose text kstrtoul rejected leave buzzer_stats and the line unchanged,
\* whatever the unassigned variable state holds.
C18_ParseFaultInert ==
    [][\A p \in Callers :
        (/\ pc[p] \in {"s_gpio", "s_stats"}
         /\ kstrtoul(buf[p]).err # 0
         /\ Steps(p))
            => UNCHANGED << buzzer_stats, line >>]_vars

(* ---- C19 --------------------------------------------------------------- *)

\* the positions at which a caller holds the lock
LockedPcs == {"o_unlock", "r_unlock", "s_gpio", "s_stats", "s_unlock"}

\* C19: under fair scheduling every handler that has been entered returns;
\* a caller holds the lock only between the step that took it and its
\* return, so never after it returned; and the lock, once taken, is given
\* back.
C19_EveryCallReturns ==
    /\ \A p \in Callers : (pc[p] # "idle") ~> (pc[p] = "idle")
    /\ [](\A p \in Callers : (lock = {p}) <=> (pc[p] \in LockedPcs))
    /\ (lock # {}) ~> (lock = {})

\* C19 witness: an open on its -EBUSY path holds the lock while another
\* caller waits for it
C19_Witness ==
    \E p, q \in Callers :
        /\ pc[p] = "o_unlock" /\ ret[p] = -EBUSY /\ lock = {p}
        /\ pc[q] \in {"o_lock", "r_lock", "s_lock"}

====
